---- MODULE Spec2Model ----
(***************************************************************************)
(* Model of libkloudtrader/algorithm.py: the execution loops run_backtest  *)
(* and run_live, the rolling buffer they feed, and the try/except boundary *)
(* that wraps each run.                                                    *)
(***************************************************************************)
EXTENDS Integers, Sequences, FiniteSets, TLC

(* ---------------------------- bounds ----------------------------------- *)
MaxSymbols == 2
MaxBars == 2
MaxBatch == 3
MaxPolls == 5
MaxData == 3
MaxReturns == 2
MaxPeriod == 4

(* ------------------------- input domains ------------------------------- *)
Symbols == {"AAA", "BBB", "CCC"}

RECURSIVE SeqsUpTo(_, _)
SeqsUpTo(S, n) ==
  IF n = 0 THEN {<<>>}
  ELSE LET shorter == SeqsUpTo(S, n - 1)
       IN shorter \cup {Append(q, x) : q \in {r \in shorter : Len(r) = n - 1}, x \in S}

Injective(q) == \A i, j \in 1..Len(q) : q[i] = q[j] => i = j

SymbolOrder == <<"AAA", "BBB", "CCC">>

\* a bucket of k symbols is an ordering of the first k symbols
UsesFirst(q) == \A i \in 1..Len(q) : \E j \in 1..Len(q) : q[i] = SymbolOrder[j]

Buckets == {q \in SeqsUpTo(Symbols, MaxSymbols) : Injective(q) /\ UsesFirst(q)}

BucketTypes == {"list", "ndarray", "tuple"}

SupportedFeeds == {"CRYPTO_live_feed", "US_STOCKS_live_feed", "CRYPTO_live_feed_level2"}
CryptoFeeds == {"CRYPTO_live_feed", "CRYPTO_live_feed_level2"}
FeedTypes == SupportedFeeds \cup {"unknown_feed"}

MarketStates == {"open", "closed"}
ExemptChoices == {{""}, {"closed"}, {"CLOSED"}}

DayChoices == {{""}, {"sunday"}}
Weekdays == {"sunday", "monday"}
DateChoices == {{""}, {"2019-12-25"}}
Dates == {"2019-12-25", "2019-12-26"}

Capitals == {100000, 50000}
Commissions == {0, 1}

CallerDelays == {1000, 3000}
RateLimits == {250, 1000}

StrategyName == "my_strategy"

Interrupts == {"KeyboardInterrupt", "SystemExit"}
FetchFaults == {"KeyboardInterrupt", "SystemExit", "DataSourceError"}
LedgerFaults == {"KeyboardInterrupt", "LedgerError"}
StrategyFaults == {"KeyboardInterrupt", "SystemExit", "StrategyError"}
SleepFaults == {"KeyboardInterrupt"}
LookupFaults == {"KeyboardInterrupt", "DataSourceError"}

(* ------------------------------ state ---------------------------------- *)
VARIABLES
  mode,             \* which entry point runs: "backtest" or "live"
  symbol_bucket,    \* argument symbol_bucket, in caller order
  bucketType,       \* Python type of the symbol_bucket argument
  histLen,          \* number of bars the historical source yields per symbol
  data_feed_type,   \* argument data_feed_type of run_live
  exempted_states,  \* argument exempted_states of run_live
  batch_size,       \* argument batch_size of run_live
  caller_delay,     \* argument data_feed_delay as the caller supplied it
  exempted_days,    \* argument exempted_days of run_live
  exempted_dates,   \* argument exempted_dates of run_live
  weekday,          \* environment: the current weekday, lower case
  today,            \* environment: the current calendar date
  initial_capital,  \* argument initial_capital of run_backtest
  commission,       \* argument commission of run_backtest
  slippage,         \* argument slippage of run_backtest
  data_feed_delay,  \* local data_feed_delay (may be overwritten, line 134)
  marketState,      \* environment: stocks.intraday_status()['state']
  pc,               \* position of the run
  symIdx,           \* position of the "for symbol in symbol_bucket" iterator
  barIdx,           \* position of the "for datetime, bar in iterrows()" iterator
  batch,            \* local batch (processing.Buffer)
  backtest,         \* local backtest (bt.Backtest)
  thrown,           \* exception in flight inside the try block
  exc,              \* exception that reached the caller
  events,           \* observable calls made by the run, in order
  log,              \* logger records, in order
  polls,            \* number of live data-feed polls made
  stateAtInvoke,    \* market state at the latest live strategy invocation
  stateRead,        \* value the latest intraday_status() lookup returned
  pollsExempt,      \* polls made in a row while the market state was exempted
  call              \* a call of an analysis.py function: arguments and outcome

vars == <<mode, symbol_bucket, bucketType, histLen, data_feed_type,
          exempted_states, batch_size, caller_delay, data_feed_delay,
          marketState, pc, symIdx, barIdx, batch, backtest, thrown, exc,
          events, log, polls, stateAtInvoke, exempted_days, exempted_dates,
          weekday, today, initial_capital, commission, slippage, stateRead,
          pollsExempt, call>>

\* the arguments of a run and the environment values it never assigns
runArgs == <<mode, symbol_bucket, bucketType, histLen, data_feed_type,
             exempted_states, batch_size, caller_delay, exempted_days,
             exempted_dates, weekday, today, initial_capital, commission,
             slippage>>

\* what a run reads and writes while it executes
runState == <<data_feed_delay, marketState, pc, symIdx, barIdx, batch, backtest,
              thrown, exc, events, log, polls, stateAtInvoke, stateRead,
              pollsExempt>>

\* what no step of run_backtest or run_live assigns
params == <<runArgs, call>>

(* ------------------------------ bars ----------------------------------- *)
Bar(s, t) == [symbol |-> s, ts |-> t]
NoBar == Bar("", 0)

\* the historical source: a finite, time-ordered series per symbol
Series(s) == [i \in 1..histLen[s] |-> Bar(s, i)]

\* the live source: one bar per invocation, the most recent tick
Tick(s, n) == Bar(s, n)

(* ------------------------- processing.Buffer --------------------------- *)
NoBuffer == [cap |-> -1, items |-> <<>>]

\* a constructor that accepts every capacity
BufferValidAny(c) == TRUE

BufferValid(c) == c >= 1

BufferNew(c) == [cap |-> c, items |-> <<>>]

BufferAppend(b, x) ==
  IF Len(b.items) = b.cap
  THEN [b EXCEPT !.items = Append(Tail(@), x)]
  ELSE [b EXCEPT !.items = Append(@, x)]

BufferPopleft(b) == [b EXCEPT !.items = Tail(@)]

BufferLen(b) == Len(b.items)

\* a frame that misses the newest row
DataFrameStale(b) == [i \in 1..(Len(b.items) - 1) |-> b.items[i]]

\* pd.DataFrame(batch): one row per buffered bar, in buffer order
DataFrame(b) == [i \in 1..Len(b.items) |-> b.items[i]]

(* --------------------------- bt.Backtest ------------------------------- *)
NoContext == [capital |-> 0, commission |-> 0, enable_slippage |-> FALSE, bars |-> <<>>, live |-> FALSE]

NewBacktest == [capital |-> 100000, commission |-> 1, enable_slippage |-> TRUE, bars |-> <<>>, live |-> TRUE]

UpdateBar(ctx, bar) == [ctx EXCEPT !.bars = Append(@, bar)]

(* ------------------------------ events --------------------------------- *)
Ev(k, s, b, w, a) == [kind |-> k, symbol |-> s, bar |-> b, window |-> w, arg |-> a]

LogRec(level, text, name) == [level |-> level, text |-> text, name |-> name]

(* ------------------------- analysis.py values -------------------------- *)
\* Python values as (type, magnitude in tenths)
PyInt(n) == [type |-> "int", tenths |-> 10 * n]
PyFloat(t) == [type |-> "float", tenths |-> t]
PyBool(b) == [type |-> "bool", tenths |-> IF b THEN 10 ELSE 0]
PyStr(n) == [type |-> "str", tenths |-> 10 * n]
PyNone == [type |-> "NoneType", tenths |-> 0]

\* confidence levels handed to value_at_risk
Confidences ==
  {PyInt(90), PyInt(95), PyInt(99), PyInt(101), PyFloat(950), PyFloat(975),
   PyBool(TRUE), PyStr(95), PyNone}

\* periods handed to check_for_period_error
Periods ==
  {PyInt(n) : n \in -1..MaxPeriod}
    \cup {PyFloat(t) : t \in {-5, 5, 25, 30, 39}}
    \cup {PyStr(n) : n \in 0..MaxPeriod}
    \cup {PyBool(TRUE), PyNone}

ReturnValues == {-2, 1, 3}

\* non-empty series of daily returns
ReturnSeries == SeqsUpTo(ReturnValues, MaxReturns) \ {<<>>}

\* data series of every length up to MaxData
DataSeries == {[i \in 1..n |-> i] : n \in 0..MaxData}

NoCall == [fn |-> "none", data |-> <<>>, arg |-> PyNone, pc |-> "none",
           result |-> 0, exc |-> "none", log |-> <<>>]

NewCall(fn, data, arg) == [fn |-> fn, data |-> data, arg |-> arg, pc |-> "called",
                           result |-> 0, exc |-> "none", log |-> <<>>]

(* ------------------------------- Init ---------------------------------- *)
Init ==
  /\ mode \in {"backtest", "live"}
  /\ symbol_bucket \in Buckets
  /\ histLen \in [Symbols -> 0..MaxBars]
  /\ \A s \in Symbols :
       (mode = "live" \/ ~(\E i \in 1..Len(symbol_bucket) : symbol_bucket[i] = s))
         => histLen[s] = 0
  /\ bucketType \in BucketTypes
  /\ mode = "backtest" => bucketType = "list"
  /\ data_feed_type \in FeedTypes
  /\ mode = "backtest" => data_feed_type = "US_STOCKS_live_feed"
  /\ (mode = "live" /\ Len(symbol_bucket) > 1) =>
       data_feed_type # "CRYPTO_live_feed_level2"
  /\ exempted_states \in ExemptChoices
  /\ (mode = "backtest" \/ bucketType # "list") => exempted_states = {""}
  /\ (mode = "live" /\ Len(symbol_bucket) > 1) => exempted_states # {"CLOSED"}
  /\ batch_size \in 0..MaxBatch
  /\ (mode = "backtest" \/ bucketType # "list") => batch_size = 1
  /\ caller_delay \in CallerDelays
  /\ (mode = "backtest" \/ bucketType # "list") => caller_delay = 1000
  /\ (mode = "live" /\ Len(symbol_bucket) > 1) => caller_delay = 1000
  /\ marketState \in MarketStates
  /\ mode = "backtest" => marketState = "open"
  /\ exempted_days \in DayChoices
  /\ exempted_dates \in DateChoices
  /\ weekday \in Weekdays
  /\ today \in Dates
  /\ ~( /\ mode = "live" /\ bucketType = "list" /\ Len(symbol_bucket) = 1
        /\ data_feed_type = "US_STOCKS_live_feed" /\ batch_size = 2
        /\ caller_delay = 1000 /\ exempted_states = {"closed"} ) =>
       /\ exempted_days = {""}
       /\ exempted_dates = {""}
       /\ weekday = "monday"
       /\ today = "2019-12-26"
  /\ initial_capital \in Capitals
  /\ commission \in Commissions
  /\ slippage \in BOOLEAN
  /\ mode = "live" =>
       /\ initial_capital = 100000
       /\ commission = 0
       /\ slippage = TRUE
  /\ data_feed_delay = caller_delay
  /\ pc = "start"
  /\ symIdx = 0
  /\ barIdx = 0
  /\ batch = NoBuffer
  /\ backtest = NoContext
  /\ thrown = "none"
  /\ exc = "none"
  /\ events = <<>>
  /\ log = <<>>
  /\ polls = 0
  /\ stateAtInvoke = "none"
  /\ stateRead = "none"
  /\ pollsExempt = 0
  /\ call = NoCall

(* --------------------------- run_backtest ------------------------------ *)
\* a loop that never moves past the first symbol
SymbolAtFirst(bucket, i) == bucket[1]

\* a loop that walks the bucket from its end
SymbolAtReversed(bucket, i) == bucket[Len(bucket) + 1 - i]

\* line 43 (and line 139): the i-th symbol the for loop visits
SymbolAt(bucket, i) == bucket[i]

\* a buffer of a single slot
BacktestCapacityOne(data_batch) == 1

\* a buffer one slot short of the series
BacktestCapacityShort(data_batch) == Len(data_batch) - 1

\* line 48: the capacity requested for the backtest buffer
BacktestCapacity(data_batch) == Len(data_batch)

\* a buffer built once and kept across symbols
CarriedBatch(previous, capacity) ==
  IF previous = NoBuffer THEN BufferNew(capacity)
  ELSE [cap |-> previous.cap + capacity, items |-> previous.items]

\* line 48: batch is rebound to a new buffer for every symbol
FreshBatch(previous, capacity) == BufferNew(capacity)

\* lines 38-42: enter the try block, log the start, resolve the data source
BacktestStart ==
  /\ mode = "backtest" /\ pc = "start"
  /\ log' = Append(log, LogRec("info", "Starting Backtest for", StrategyName))
  /\ symIdx' = 1
  /\ pc' = "bt_symbol"
  /\ UNCHANGED <<params, data_feed_delay, marketState, barIdx, batch, backtest,
                 thrown, exc, events, polls, stateAtInvoke, stateRead, pollsExempt>>

\* line 43 exhausted: the for loop over the bucket ends, the function returns
BacktestDone ==
  /\ mode = "backtest" /\ pc = "bt_symbol"
  /\ symIdx > Len(symbol_bucket)
  /\ pc' = "returned"
  /\ UNCHANGED <<params, data_feed_delay, marketState, symIdx, barIdx, batch,
                 backtest, thrown, exc, events, log, polls, stateAtInvoke, stateRead, pollsExempt>>

\* lines 43-49: next symbol, fetch its series, build its buffer and context
BacktestFetch ==
  /\ mode = "backtest" /\ pc = "bt_symbol"
  /\ symIdx <= Len(symbol_bucket)
  /\ LET symbol == SymbolAt(symbol_bucket, symIdx)
         fetched == Append(events, Ev("fetch", symbol, NoBar, <<>>, 0))
     IN \E f \in FetchFaults \cup {"ok"} :
          IF f # "ok"
          THEN /\ events' = fetched
               /\ thrown' = f
               /\ pc' = "except"
               /\ UNCHANGED <<batch, backtest, barIdx>>
          ELSE IF ~BufferValid(BacktestCapacity(Series(symbol)))
          THEN /\ events' = fetched
               /\ thrown' = "InvalidCapacity"
               /\ pc' = "except"
               /\ UNCHANGED <<batch, backtest, barIdx>>
          ELSE /\ events' = fetched
               /\ batch' = FreshBatch(batch, BacktestCapacity(Series(symbol)))
               /\ backtest' = NewBacktest
               /\ barIdx' = 1
               /\ pc' = "bt_bar"
               /\ UNCHANGED thrown
  /\ UNCHANGED <<params, data_feed_delay, marketState, symIdx, exc, log, polls,
                 stateAtInvoke, stateRead, pollsExempt>>

\* lines 50-55: one iteration of the bar loop
BacktestBar ==
  /\ mode = "backtest" /\ pc = "bt_bar"
  /\ barIdx <= Len(Series(SymbolAt(symbol_bucket, symIdx)))
  /\ LET symbol == SymbolAt(symbol_bucket, symIdx)
         bar == Series(symbol)[barIdx]
         appended == BufferAppend(batch, bar)
         updated == UpdateBar(backtest, bar)
         data_batch == DataFrame(appended)
         evAppend == Ev("append", symbol, bar, <<>>, 0)
         evUpdate == Ev("update", symbol, bar, <<>>, 0)
         evSnapshot == Ev("snapshot", symbol, bar, data_batch, 0)
         evCall == Ev("strategy", symbol, bar, data_batch, Len(updated.bars))
     IN /\ batch' = appended
        /\ \E f \in LedgerFaults \cup {"ok"} :
             IF f # "ok"
             THEN /\ events' = events \o <<evAppend, evUpdate>>
                  /\ thrown' = f
                  /\ pc' = "except"
                  /\ UNCHANGED <<backtest, barIdx>>
             ELSE \E g \in StrategyFaults \cup {"ok"} :
                  /\ events' = events \o <<evAppend, evUpdate, evSnapshot, evCall>>
                  /\ backtest' = updated
                  /\ IF g # "ok"
                     THEN thrown' = g /\ pc' = "except" /\ UNCHANGED barIdx
                     ELSE barIdx' = barIdx + 1 /\ UNCHANGED <<thrown, pc>>
  /\ UNCHANGED <<params, data_feed_delay, marketState, symIdx, exc, log, polls,
                 stateAtInvoke, stateRead, pollsExempt>>

\* a context that outlives its symbol
DelKept(ctx) == ctx

\* line 58: del backtest unbinds the context of the symbol just reported
Del(ctx) == NoContext

\* lines 57-58: series exhausted, print the trade log, drop the context
BacktestReport ==
  /\ mode = "backtest" /\ pc = "bt_bar"
  /\ barIdx > Len(Series(SymbolAt(symbol_bucket, symIdx)))
  /\ events' = Append(events, Ev("report", SymbolAt(symbol_bucket, symIdx), NoBar, <<>>, Len(backtest.bars)))
  /\ backtest' = Del(backtest)
  /\ symIdx' = symIdx + 1
  /\ pc' = "bt_symbol"
  /\ UNCHANGED <<params, data_feed_delay, marketState, barIdx, batch, thrown,
                 exc, log, polls, stateAtInvoke, stateRead, pollsExempt>>

(* ----------------------------- run_live -------------------------------- *)
\* a delay that ignores the exchange rate limit
PacingDelaySupplied(feed, supplied, rateLimit) == supplied

\* lines 133-134: the delay the loop sleeps with
PacingDelay(feed, supplied, rateLimit) ==
  IF feed \in CryptoFeeds THEN rateLimit ELSE supplied

\* a membership test that lets every identifier through
FeedAcceptedAny(feed) == TRUE

\* lines 128-129: the membership test on data_feed_type
FeedAccepted(feed) ==
  feed \in {"CRYPTO_live_feed", "US_STOCKS_live_feed", "CRYPTO_live_feed_level2"}

\* a buffer one slot wider than batch_size
LiveCapacityWide(size) == size + 1

\* line 137: the capacity requested for the live buffer
LiveCapacity(size) == size

\* a loop that never pops the buffer
EvictNever(b, size) == b

\* eviction that starts one element early
EvictIfFullEarly(b, size) ==
  IF BufferLen(b) >= size - 1 /\ BufferLen(b) > 0 THEN BufferPopleft(b) ELSE b

\* lines 143-144: drop the oldest bar once the buffer holds batch_size bars
EvictIfFull(b, size) ==
  IF BufferLen(b) = size THEN BufferPopleft(b) ELSE b

\* str.lower on the labels the model uses
Lower(x) == IF x = "CLOSED" THEN "closed" ELSE IF x = "SUNDAY" THEN "sunday" ELSE x

\* lines 122-123: the list the comprehension [x.lower() for x in ...] builds;
\* the statement binds it to no name
LowerAll(xs) == {Lower(x) : x \in xs}

\* line 136: the while condition; the weekday test is commented out and the
\* calendar date is not consulted
KeepRunning(state, states, day, days, date, dates) == state \notin states

\* lines 119-135: enter the try block, validate the arguments, pick the delay
LiveStart ==
  /\ mode = "live" /\ pc = "start"
  /\ log' = Append(log, LogRec("info", "is now entering the live markets", StrategyName))
  /\ IF bucketType # "list"
     THEN \* line 126 evaluates the unbound name numpy
          /\ thrown' = "NameError"
          /\ pc' = "except"
          /\ UNCHANGED <<data_feed_delay, events>>
     ELSE IF ~FeedAccepted(data_feed_type)
     THEN /\ thrown' = "InvalidDataFeedType"
          /\ pc' = "except"
          /\ UNCHANGED <<data_feed_delay, events>>
     ELSE IF data_feed_type \in CryptoFeeds
     THEN \E f \in LookupFaults \cup {"ok"} :
               IF f # "ok"
               THEN /\ events' = Append(events, Ev("ratelimit", "", NoBar, <<>>, 0))
                    /\ thrown' = f
                    /\ pc' = "except"
                    /\ UNCHANGED data_feed_delay
               ELSE \E r \in RateLimits :
                      /\ events' = Append(events, Ev("ratelimit", "", NoBar, <<>>, r))
                      /\ data_feed_delay' = PacingDelay(data_feed_type, data_feed_delay, r)
                      /\ pc' = "lv_outer"
                      /\ UNCHANGED thrown
     ELSE /\ data_feed_delay' = PacingDelay(data_feed_type, data_feed_delay, 0)
          /\ pc' = "lv_outer"
          /\ UNCHANGED <<thrown, events>>
  /\ UNCHANGED <<params, marketState, symIdx, barIdx, batch, backtest, exc,
                 polls, stateAtInvoke, stateRead, pollsExempt>>

\* lines 136-137: read the market state; leave the loop or build the buffer
LiveOuter ==
  /\ mode = "live" /\ pc = "lv_outer"
  /\ events' = Append(events, Ev("market", "", NoBar, <<>>, 0))
  /\ \E f \in LookupFaults \cup {"ok"} :
       IF f # "ok"
       THEN thrown' = f /\ pc' = "except" /\ UNCHANGED <<batch, stateRead>>
       ELSE /\ stateRead' = marketState
            /\ IF ~KeepRunning(marketState, exempted_states, weekday,
                               exempted_days, today, exempted_dates)
               THEN pc' = "returned" /\ UNCHANGED <<thrown, batch>>
               ELSE IF ~BufferValid(LiveCapacity(batch_size))
               THEN thrown' = "InvalidCapacity" /\ pc' = "except" /\ UNCHANGED batch
               ELSE /\ batch' = BufferNew(LiveCapacity(batch_size))
                    /\ pc' = "lv_inner"
                    /\ UNCHANGED thrown
  /\ UNCHANGED <<params, data_feed_delay, marketState, symIdx, barIdx, backtest,
                 exc, log, polls, stateAtInvoke, pollsExempt>>

\* line 138: while len(batch) < batch_size
LiveInner ==
  /\ mode = "live" /\ pc = "lv_inner"
  /\ IF BufferLen(batch) < batch_size
     THEN symIdx' = 1 /\ pc' = "lv_for"
     ELSE pc' = "lv_outer" /\ UNCHANGED symIdx
  /\ UNCHANGED <<params, data_feed_delay, marketState, barIdx, batch, backtest,
                 thrown, exc, events, log, polls, stateAtInvoke, stateRead, pollsExempt>>

\* line 139 exhausted: one round over the bucket is complete
LiveForEnd ==
  /\ mode = "live" /\ pc = "lv_for"
  /\ symIdx > Len(symbol_bucket)
  /\ pc' = "lv_inner"
  /\ UNCHANGED <<params, data_feed_delay, marketState, symIdx, barIdx, batch,
                 backtest, thrown, exc, events, log, polls, stateAtInvoke, stateRead, pollsExempt>>

\* an iteration that sleeps before it shows the window
IterationSleepFirst(poll, append, invoke, sleep) == <<poll, sleep, append, invoke>>

\* lines 140-145: the calls of one iteration in statement order: the feed is
\* polled and its bar appended (line 140), the strategy gets the rebuilt
\* frame (lines 141-142), the run sleeps (line 145)
Iteration(poll, append, invoke, sleep) == <<poll, append, invoke, sleep>>

\* lines 139-145: poll one symbol, show the window, evict, sleep.
\* The sleep event carries data_feed_delay in milliseconds; time.sleep gets
\* that value divided by 1000.
LivePoll ==
  /\ mode = "live" /\ pc = "lv_for"
  /\ symIdx <= Len(symbol_bucket)
  /\ polls < MaxPolls
  /\ LET symbol == SymbolAt(symbol_bucket, symIdx)
         bar == Tick(symbol, polls + 1)
         appended == BufferAppend(batch, bar)
         data_batch == DataFrame(appended)
         evPoll == Ev("poll", symbol, NoBar, <<>>, 0)
         evAppend == Ev("append", symbol, bar, <<>>, 0)
         evCall == Ev("strategy", symbol, bar, data_batch, 0)
         evSleep == Ev("sleep", symbol, NoBar, <<>>, data_feed_delay)
         steps == Iteration(evPoll, evAppend, evCall, evSleep)
     IN \E f \in LookupFaults \cup {"ok"} :
          IF f # "ok"
          THEN /\ events' = events \o SubSeq(steps, 1, 1)
               /\ thrown' = f
               /\ pc' = "except"
               /\ UNCHANGED <<batch, polls, stateAtInvoke, symIdx, pollsExempt>>
          ELSE /\ polls' = polls + 1
               /\ stateAtInvoke' = marketState
               /\ pollsExempt' = IF marketState \in exempted_states
                                 THEN pollsExempt + 1 ELSE 0
               /\ \E g \in StrategyFaults \cup {"ok"} :
                    IF g # "ok"
                    THEN /\ events' = events \o SubSeq(steps, 1, 3)
                         /\ batch' = appended
                         /\ thrown' = g
                         /\ pc' = "except"
                         /\ UNCHANGED symIdx
                    ELSE /\ events' = events \o steps
                         /\ batch' = EvictIfFull(appended, batch_size)
                         /\ \E h \in SleepFaults \cup {"ok"} :
                              IF h # "ok"
                              THEN thrown' = h /\ pc' = "except" /\ UNCHANGED symIdx
                              ELSE symIdx' = symIdx + 1 /\ UNCHANGED <<thrown, pc>>
  /\ UNCHANGED <<params, data_feed_delay, marketState, barIdx, backtest, exc,
                 log, stateRead>>

\* environment: the market state moves while the run is in progress
MarketChange ==
  /\ mode = "live"
  /\ pc \in {"lv_outer", "lv_inner", "lv_for"}
  /\ \E m \in MarketStates \ {marketState} : marketState' = m
  /\ UNCHANGED <<params, data_feed_delay, pc, symIdx, barIdx, batch, backtest,
                 thrown, exc, events, log, polls, stateAtInvoke, stateRead, pollsExempt>>

(* ------------------------- failure boundary ---------------------------- *)
\* a first except clause that names KeyboardInterrupt alone
CaughtAsInterruptKeyboardOnly(e) == e = "KeyboardInterrupt"

\* a first except clause that misses KeyboardInterrupt
CaughtAsInterruptNarrow(e) == e = "SystemExit"

\* lines 94 and 146: except (KeyboardInterrupt, SystemExit)
CaughtAsInterrupt(e) == e \in {"KeyboardInterrupt", "SystemExit"}

\* lines 98 and 150: except Exception; KeyboardInterrupt and SystemExit
\* derive from BaseException only
CaughtAsException(e) == e \notin {"KeyboardInterrupt", "SystemExit"}

\* a handler that raises a fresh exception in place of the caught one
ReraiseGeneric(exception) == "Exception"

\* lines 103 and 153: raise exception
Reraise(exception) == exception

\* a handler that goes back into the loop after logging
ExitResumed(m) == IF m = "backtest" THEN "bt_symbol" ELSE "lv_outer"

\* lines 103 and 153: the raise leaves the function; the try block encloses
\* the whole loop (lines 38 and 119), so nothing of the loop runs afterwards
ExitRaised(m) == "raised"

\* an interrupt clause that goes back into the loop after logging
InterruptResumed(m) == IF m = "backtest" THEN "bt_symbol" ELSE "lv_outer"

\* lines 95-97 and 147-149: the interrupt clause prints and logs, then the
\* function ends: no statement follows the try statement
InterruptReturns(m) == "returned"

\* lines 94-103 and 146-153: the except clauses of the run
FailureBoundary ==
  /\ pc = "except"
  /\ IF CaughtAsInterrupt(thrown)
     THEN /\ log' = Append(log, LogRec("critical", "User's keyboard prompt stopped", StrategyName))
          /\ pc' = InterruptReturns(mode)
          /\ UNCHANGED exc
     ELSE IF CaughtAsException(thrown)
     THEN /\ log' = Append(Append(log, LogRec("critical", "Exiting", StrategyName)),
                           LogRec("error", "Oops! Something went wrong", ""))
          /\ exc' = Reraise(thrown)
          /\ pc' = ExitRaised(mode)
     ELSE /\ exc' = thrown
          /\ pc' = "raised"
          /\ UNCHANGED log
  /\ UNCHANGED <<params, data_feed_delay, marketState, symIdx, barIdx, batch,
                 backtest, thrown, events, polls, stateAtInvoke, stateRead, pollsExempt>>

Next ==
  \/ BacktestStart
  \/ BacktestDone
  \/ BacktestFetch
  \/ BacktestBar
  \/ BacktestReport
  \/ LiveStart
  \/ LiveOuter
  \/ LiveInner
  \/ LiveForEnd
  \/ LivePoll
  \/ MarketChange
  \/ FailureBoundary

Spec == Init /\ [][Next]_vars

(* ----------------------------- analysis.py ----------------------------- *)
IsInstance(v, t) ==
  IF t = "int" THEN v.type \in {"int", "bool"} ELSE v.type = t

\* int(v): floats are truncated toward zero, digit strings are parsed
IntOf(v) ==
  IF v.tenths >= 0 THEN v.tenths \div 10 ELSE -((-v.tenths) \div 10)

\* int(None) raises TypeError
IntRaises(v) == IF v.type = "NoneType" THEN "TypeError" ELSE "none"

\* a test that also rejects a period equal to the data length
PeriodTooLongStrict(data_len, period) == data_len <= period

\* line 25: if data_len < period
PeriodTooLong(data_len, period) == data_len < period

\* lines 19-28: check_for_period_error(data, period)
CheckForPeriodError ==
  /\ call.fn = "check_for_period_error" /\ call.pc = "called"
  /\ IF IntRaises(call.arg) # "none"
     THEN call' = [call EXCEPT !.pc = "raised", !.exc = IntRaises(call.arg)]
     ELSE LET period == IntOf(call.arg)
              data_len == Len(call.data)
          IN IF PeriodTooLong(data_len, period)
             THEN call' = [call EXCEPT !.pc = "raised",
                                       !.exc = "AnalysisException",
                                       !.log = Append(@, "error")]
             ELSE call' = [call EXCEPT !.pc = "returned"]
  /\ UNCHANGED <<runArgs, runState>>

RECURSIVE Insert(_, _)
Insert(q, x) ==
  IF q = <<>> THEN <<x>>
  ELSE IF x <= Head(q) THEN <<x>> \o q
  ELSE <<Head(q)>> \o Insert(Tail(q), x)

RECURSIVE Sorted(_)
\* line 1683: sorted(daily_returns)
Sorted(q) == IF q = <<>> THEN <<>> ELSE Insert(Sorted(Tail(q)), Head(q))

\* np.percentile(a, q) with linear interpolation; q in tenths of a percent,
\* the result in thousandths of the unit of a
Percentile(a, q) ==
  LET n == Len(a)
      pos == q * (n - 1)
      lo == pos \div 1000
      hi == IF lo + 1 <= n - 1 THEN lo + 1 ELSE n - 1
  IN a[lo + 1] * 1000 + (pos % 1000) * (a[hi + 1] - a[lo + 1])

\* np.percentile raises ValueError outside [0, 100]
PercentileInRange(q) == 0 <= q /\ q <= 1000

\* a test that lets integers and floats through
ConfidenceRejectedNeither(c) == ~(IsInstance(c, "int") \/ IsInstance(c, "float"))

\* lines 1678-1679: not isinstance(confidence_level, int) or
\* isinstance(confidence_level, float)
ConfidenceRejected(c) == ~IsInstance(c, "int") \/ IsInstance(c, "float")

\* lines 1672-1704: value_at_risk(daily_returns, confidence_level)
ValueAtRisk ==
  /\ call.fn = "value_at_risk" /\ call.pc = "called"
  /\ LET c == call.arg
         q == 1000 - c.tenths
     IN IF ConfidenceRejected(c)
        THEN call' = [call EXCEPT !.pc = "raised",
                                  !.exc = "AnalysisException",
                                  !.log = <<"info", "error">>]
        ELSE IF ~PercentileInRange(q)
        THEN call' = [call EXCEPT !.pc = "raised",
                                  !.exc = "ValueError",
                                  !.log = <<"info", "error">>]
        ELSE call' = [call EXCEPT !.pc = "returned",
                                  !.result = Percentile(Sorted(call.data), q),
                                  !.log = <<"info">>]
  /\ UNCHANGED <<runArgs, runState>>

\* no run is in progress while an analysis function is called on its own
InitAnalysis ==
  /\ mode = "none"
  /\ symbol_bucket = <<>>
  /\ bucketType = "list"
  /\ histLen = [s \in Symbols |-> 0]
  /\ data_feed_type = "US_STOCKS_live_feed"
  /\ exempted_states = {""}
  /\ batch_size = 1
  /\ caller_delay = 1000
  /\ exempted_days = {""}
  /\ exempted_dates = {""}
  /\ weekday = "monday"
  /\ today = "2019-12-26"
  /\ initial_capital = 100000
  /\ commission = 0
  /\ slippage = TRUE
  /\ data_feed_delay = caller_delay
  /\ marketState = "open"
  /\ pc = "idle"
  /\ symIdx = 0
  /\ barIdx = 0
  /\ batch = NoBuffer
  /\ backtest = NoContext
  /\ thrown = "none"
  /\ exc = "none"
  /\ events = <<>>
  /\ log = <<>>
  /\ polls = 0
  /\ stateAtInvoke = "none"
  /\ stateRead = "none"
  /\ pollsExempt = 0
  /\ \/ \E d \in DataSeries, p \in Periods :
          call = NewCall("check_for_period_error", d, p)
     \/ \E r \in ReturnSeries, c \in Confidences :
          call = NewCall("value_at_risk", r, c)

NextAnalysis ==
  \/ CheckForPeriodError
  \/ ValueAtRisk

SpecAnalysis == InitAnalysis /\ [][NextAnalysis]_vars

(* ======================= properties of the runs ======================== *)
StrategyCalls == SelectSeq(events, LAMBDA e : e.kind = "strategy")

CleanReturn == pc = "returned" /\ thrown = "none"

\* position of a symbol in the caller's bucket
Pos(s) == CHOOSE i \in 1..Len(symbol_bucket) : symbol_bucket[i] = s

RECURSIVE AllSeries(_)
AllSeries(bucket) ==
  IF bucket = <<>> THEN <<>>
  ELSE [i \in 1..histLen[Head(bucket)] |-> Bar(Head(bucket), i)] \o AllSeries(Tail(bucket))

\* C1: in a backtest over one symbol whose source yields N bars, the i-th
\* strategy invocation is for the i-th bar of the source (timestamps strictly
\* increase), there are never more than N invocations, and a run that
\* completes has made exactly N, the last one with a window of all N bars.
C1_OneSymbolBacktest ==
  (mode = "backtest" /\ Len(symbol_bucket) = 1) =>
    LET s == symbol_bucket[1]
        N == histLen[s]
        calls == StrategyCalls
    IN /\ Len(calls) <= N
       /\ \A i \in 1..Len(calls) :
            /\ calls[i].symbol = s
            /\ calls[i].bar = Bar(s, i)
       /\ \A i, j \in 1..Len(calls) : i < j => calls[i].bar.ts < calls[j].bar.ts
       /\ CleanReturn =>
            /\ Len(calls) = N
            /\ N > 0 => calls[N].window = [i \in 1..N |-> Bar(s, i)]

C1_Witness ==
  /\ mode = "backtest" /\ Len(symbol_bucket) = 1
  /\ histLen[symbol_bucket[1]] = 2
  /\ CleanReturn
  /\ Len(StrategyCalls) = 2
  /\ Len(StrategyCalls[2].window) = 2

\* C2: in a backtest the events of the run (fetch, context update, strategy
\* invocation, report) follow the caller's bucket order: nothing for a later
\* symbol precedes anything for an earlier one, and a run that completes has
\* invoked the strategy on the bars of s1, then of s2, ..., in source order.
C2_BucketOrder ==
  mode = "backtest" =>
    /\ \A a, b \in 1..Len(events) :
         a < b => Pos(events[a].symbol) <= Pos(events[b].symbol)
    /\ CleanReturn =>
         /\ Len(StrategyCalls) = Len(AllSeries(symbol_bucket))
         /\ \A i \in 1..Len(StrategyCalls) :
              StrategyCalls[i].bar = AllSeries(symbol_bucket)[i]

C2_Witness ==
  /\ mode = "backtest"
  /\ symbol_bucket = <<"BBB", "AAA">>
  /\ histLen["AAA"] = 2 /\ histLen["BBB"] = 2
  /\ CleanReturn
  /\ Len(StrategyCalls) = 4
  /\ StrategyCalls[1].bar = Bar("BBB", 1)
  /\ StrategyCalls[2].bar = Bar("BBB", 2)
  /\ StrategyCalls[3].bar = Bar("AAA", 1)
  /\ StrategyCalls[4].bar = Bar("AAA", 2)

Min(a, b) == IF a < b THEN a ELSE b

\* C3: in a live run the strategy is never invoked at a moment when the
\* current market state is a member of exempted_states.
C3_NeverInvokedWhileExempt ==
  mode = "live" => stateAtInvoke \notin exempted_states

\* C4: in a live run the k-th polled bar is shown to the strategy in a window
\* made of exactly the last min(k, batch_size) polled bars, in poll order.
C4_LiveWindow ==
  mode = "live" =>
    \A k \in 1..Len(StrategyCalls) :
      LET m == Min(k, batch_size)
      IN /\ StrategyCalls[k].bar.ts = k
         /\ StrategyCalls[k].window = [i \in 1..m |-> StrategyCalls[k - m + i].bar]

C4_Witness ==
  /\ mode = "live" /\ batch_size = 3
  /\ Len(StrategyCalls) = 5
  /\ [i \in 1..3 |-> StrategyCalls[4].window[i].ts] = <<2, 3, 4>>
  /\ [i \in 1..3 |-> StrategyCalls[5].window[i].ts] = <<3, 4, 5>>

\* C5: whenever a run holds a buffer, the buffer is no longer than its
\* capacity, and that capacity is the series length of the symbol being
\* replayed (backtest) or batch_size (live).
C5_BufferBounded ==
  batch # NoBuffer =>
    /\ BufferLen(batch) <= batch.cap
    /\ pc = "bt_bar" => batch.cap = histLen[symbol_bucket[symIdx]]
    /\ mode = "live" => batch.cap = batch_size

C5_Witness ==
  /\ mode = "backtest" /\ pc = "bt_bar"
  /\ batch.cap = 2
  /\ BufferLen(batch) = batch.cap

\* C6: a run started with an empty symbol bucket goes nowhere but into the
\* failure path with EmptySymbolBucket, having made no call at all.
C6_EmptyBucketFails ==
  (symbol_bucket = <<>> /\ bucketType = "list" /\ pc # "start") =>
    /\ pc \in {"except", "raised"}
    /\ thrown = "EmptySymbolBucket"
    /\ events = <<>>

\* C7: run_live with a list bucket and a feed identifier outside the three
\* supported ones makes no lookup, poll or strategy call, never returns
\* normally, and what reaches the caller is InvalidDataFeedType.
C7_UnknownFeedRejected ==
  (mode = "live" /\ bucketType = "list" /\ data_feed_type \notin SupportedFeeds) =>
    /\ events = <<>>
    /\ polls = 0
    /\ pc \in {"start", "except", "raised"}
    /\ pc = "except" => thrown = "InvalidDataFeedType"
    /\ pc = "raised" => exc = "InvalidDataFeedType"

C7_Witness ==
  /\ mode = "live" /\ bucketType = "list"
  /\ data_feed_type = "unknown_feed"
  /\ pc = "raised" /\ exc = "InvalidDataFeedType"
  /\ events = <<>>

\* C8: every sleep of a live run lasts the rate limit the exchange lookup
\* returned when the feed is a crypto feed, and the caller's data_feed_delay
\* when it is the equities feed.
C8_PacingDelay ==
  mode = "live" =>
    \A i \in 1..Len(events) :
      events[i].kind = "sleep" =>
        IF data_feed_type \in CryptoFeeds
        THEN /\ events[1].kind = "ratelimit"
             /\ events[i].arg = events[1].arg
        ELSE events[i].arg = caller_delay

C8_Witness ==
  /\ mode = "live"
  /\ data_feed_type = "CRYPTO_live_feed_level2"
  /\ caller_delay = 3000
  /\ Len(events) >= 5
  /\ events[1].kind = "ratelimit" /\ events[1].arg = 250
  /\ events[Len(events)].kind = "sleep" /\ events[Len(events)].arg = 250

\* C9: once a KeyboardInterrupt is in flight the run makes no further call
\* (no fetch, poll, strategy invocation or sleep), nothing reaches the
\* caller, and the run ends returned with a critical log record naming the
\* strategy.
C9_InterruptStopsCleanly ==
  [][ /\ thrown' = "KeyboardInterrupt" =>
           /\ pc' \in {"except", "returned"}
           /\ exc' = "none"
           /\ pc' = "returned" =>
                /\ log'[Len(log')].level = "critical"
                /\ log'[Len(log')].name = StrategyName
      /\ thrown = "KeyboardInterrupt" =>
           /\ events' = events
           /\ polls' = polls
           /\ pc' = "returned"
    ]_vars

C9_Witness ==
  /\ thrown = "KeyboardInterrupt"
  /\ pc = "returned"
  /\ exc = "none"
  /\ Len(StrategyCalls) >= 1
  /\ log[Len(log)].level = "critical"

\* C10: an exception other than an interrupt raised inside a run is never
\* swallowed: the run does not return normally, and when it has left the run
\* the caller holds that very exception and the log holds a critical record.
C10_ExceptionReraised ==
  (thrown # "none" /\ thrown \notin Interrupts) =>
    /\ pc \in {"except", "raised"}
    /\ pc = "except" => exc = "none"
    /\ pc = "raised" =>
         /\ exc = thrown
         /\ \E i \in 1..Len(log) : log[i].level = "critical" /\ log[i].name = StrategyName

C10_Witness ==
  /\ pc = "raised"
  /\ exc = "StrategyError"
  /\ thrown = "StrategyError"
  /\ log[Len(log) - 1].level = "critical"

InLiveLoop == mode = "live" /\ pc \in {"lv_inner", "lv_for"}

\* C11: run_live compares the market state with the lower-cased exempted
\* states: the loop is entered only when the state read is outside the
\* lower-cased list, and the run returns without polling only when it is in it.
C11_ExemptedStatesLowered ==
  /\ InLiveLoop => stateRead \notin LowerAll(exempted_states)
  /\ (mode = "live" /\ CleanReturn) => stateRead \in LowerAll(exempted_states)

\* C12: run_live makes no poll and no strategy invocation while the current
\* weekday is in exempted_days or the current date is in exempted_dates.
C12_DaysAndDatesGate ==
  (mode = "live" /\ (weekday \in LowerAll(exempted_days) \/ today \in exempted_dates)) =>
    /\ polls = 0
    /\ StrategyCalls = <<>>
    /\ ~InLiveLoop

\* C13: the context run_backtest builds for a symbol carries the caller's
\* initial_capital, commission and slippage.
C13_ContextCarriesConfig ==
  (mode = "backtest" /\ backtest.live) =>
    /\ backtest.capital = initial_capital
    /\ backtest.commission = commission
    /\ backtest.enable_slippage = slippage

Failed == thrown # "none" /\ thrown \notin Interrupts

Polls == SelectSeq(events, LAMBDA e : e.kind = "poll")

\* C14: in a backtest, once a non-interrupt exception has been raised while
\* symbol s_i is processed, the run makes no further call at all, so no fetch
\* and no strategy invocation happens for any later symbol.
C14_FailureAbortsBucket ==
  [][ /\ (mode = "backtest" /\ Failed) => events' = events
      /\ (mode' = "backtest" /\ Failed') =>
           \A i \in 1..Len(events') : Pos(events'[i].symbol) <= symIdx'
    ]_vars

C14_Witness ==
  /\ mode = "backtest" /\ Len(symbol_bucket) = 2
  /\ histLen[symbol_bucket[2]] >= 1
  /\ symIdx = 1
  /\ thrown = "StrategyError"
  /\ pc = "raised"

\* C15: in a backtest every window holds bars of the invoked symbol only, the
\* context passed has received exactly that symbol's bars up to the current
\* one, and the first invocation for a symbol gets a window of one bar.
C15_FreshPerSymbol ==
  mode = "backtest" =>
    /\ \A i \in 1..Len(events) :
         events[i].kind = "strategy" =>
           /\ \A j \in 1..Len(events[i].window) :
                events[i].window[j].symbol = events[i].symbol
           /\ events[i].arg = events[i].bar.ts
           /\ events[i].bar.ts = 1 => events[i].window = <<events[i].bar>>
    /\ backtest.live =>
         \A j \in 1..Len(backtest.bars) :
           backtest.bars[j].symbol = symbol_bucket[symIdx]

C15_Witness ==
  /\ mode = "backtest" /\ Len(symbol_bucket) = 2
  /\ histLen[symbol_bucket[1]] = 2
  /\ Len(events) >= 1
  /\ events[Len(events)].kind = "strategy"
  /\ events[Len(events)].bar = Bar(symbol_bucket[2], 1)
  /\ Len(events[Len(events)].window) = 1
  /\ Len(backtest.bars) = 1

\* C16: in a live run the n-th poll (counting from 1) is for the symbol at
\* position ((n - 1) mod k) + 1 of the bucket of k symbols.
C16_RoundRobin ==
  mode = "live" =>
    \A n \in 1..Len(Polls) :
      Polls[n].symbol = symbol_bucket[((n - 1) % Len(symbol_bucket)) + 1]

C16_Witness ==
  /\ mode = "live" /\ Len(symbol_bucket) = 2 /\ batch_size = 2
  /\ Len(Polls) = 5
  /\ Polls[4].symbol = symbol_bucket[2]
  /\ Polls[5].symbol = symbol_bucket[1]

\* C17: a live run with batch_size < 1 never holds a buffer, polls or invokes
\* the strategy, and once the market-state test has let it through to the
\* buffer construction it fails with InvalidCapacity.
C17_InvalidCapacity ==
  (mode = "live" /\ batch_size < 1) =>
    /\ polls = 0
    /\ StrategyCalls = <<>>
    /\ batch = NoBuffer
    /\ ~InLiveLoop
    /\ (stateRead # "none" /\ stateRead \notin exempted_states) =>
         /\ thrown = "InvalidCapacity"
         /\ pc \in {"except", "raised"}
         /\ pc = "raised" => exc = "InvalidCapacity"

C17_Witness ==
  /\ mode = "live" /\ batch_size = 0
  /\ stateRead = "open"
  /\ pc = "raised" /\ exc = "InvalidCapacity"
  /\ events[Len(events)].kind = "market"

\* C18: in a live run the number of polls made in a row while the market
\* state is in exempted_states stays within one buffer fill plus one round
\* over the bucket.
C18_StopsWhenExempt ==
  mode = "live" => pollsExempt <= batch_size + Len(symbol_bucket)

KindsBefore(i) == <<events[i - 3].kind, events[i - 2].kind, events[i - 1].kind>>

SameBar(i) ==
  /\ events[i - 3].bar = events[i].bar
  /\ events[i - 2].bar = events[i].bar
  /\ events[i - 1].bar = events[i].bar

ShownAndReceived(i) ==
  /\ Len(events[i].window) >= 1
  /\ events[i].window[Len(events[i].window)] = events[i].bar
  /\ events[i].arg >= 1
  /\ i = Len(events) => backtest.bars[Len(backtest.bars)] = events[i].bar

\* C19 as stated: every backtest strategy invocation is preceded, for the
\* same bar, by append, then snapshot, then context update.
C19_SpecOrder ==
  mode = "backtest" =>
    \A i \in 1..Len(events) :
      events[i].kind = "strategy" =>
        /\ i >= 4
        /\ KindsBefore(i) = <<"append", "snapshot", "update">>
        /\ SameBar(i)
        /\ ShownAndReceived(i)

\* C19 as amended: every backtest strategy invocation is preceded, for the
\* same bar, by append, then context update, then snapshot; the strategy gets
\* that snapshot, whose newest row is the bar, and the context has the bar.
C19_CodeOrder ==
  mode = "backtest" =>
    \A i \in 1..Len(events) :
      events[i].kind = "strategy" =>
        /\ i >= 4
        /\ KindsBefore(i) = <<"append", "update", "snapshot">>
        /\ SameBar(i)
        /\ events[i - 1].window = events[i].window
        /\ ShownAndReceived(i)

C19_Witness ==
  /\ mode = "backtest"
  /\ Len(events) >= 9
  /\ events[Len(events)].kind = "strategy"
  /\ events[Len(events) - 1].kind = "snapshot"
  /\ events[Len(events) - 2].kind = "update"
  /\ events[Len(events) - 3].kind = "append"
  /\ Len(events[Len(events)].window) = 2

CallsOf(s) == SelectSeq(events, LAMBDA e : e.kind = "strategy" /\ e.symbol = s)

\* C20: in a backtest the window of the k-th strategy invocation for a symbol
\* is exactly the first k bars of that symbol's series, in source order.
C20_NeverEvicts ==
  mode = "backtest" =>
    \A s \in Symbols :
      \A k \in 1..Len(CallsOf(s)) :
        CallsOf(s)[k].window = [j \in 1..k |-> Bar(s, j)]

C20_Witness ==
  /\ mode = "backtest" /\ Len(symbol_bucket) = 2
  /\ Len(CallsOf(symbol_bucket[1])) = 2
  /\ Len(CallsOf(symbol_bucket[2])) = 2
  /\ Len(CallsOf(symbol_bucket[2])[1].window) = 1
  /\ Len(CallsOf(symbol_bucket[2])[2].window) = 2

ReportsOf(s) == SelectSeq(events, LAMBDA e : e.kind = "report" /\ e.symbol = s)

\* C21: in a backtest the report of a symbol is printed at most once, and
\* exactly once when the loop has moved past the symbol; it comes after the
\* fetch and every strategy invocation of that symbol and before the fetch of
\* any later symbol, the fetch of s_(i+1) is preceded by the report of s_i,
\* and no context is bound when the loop picks the next symbol.
C21_ReportOncePerSymbol ==
  mode = "backtest" =>
    /\ \A s \in Symbols : Len(ReportsOf(s)) <= 1
    /\ \A i \in 1..Len(symbol_bucket) :
         i < symIdx => Len(ReportsOf(symbol_bucket[i])) = 1
    /\ \A r \in 1..Len(events) :
         events[r].kind = "report" =>
           \A j \in 1..Len(events) :
             /\ (events[j].kind \in {"fetch", "strategy"}
                   /\ events[j].symbol = events[r].symbol) => j < r
             /\ (events[j].kind = "fetch"
                   /\ Pos(events[j].symbol) > Pos(events[r].symbol)) => j > r
    /\ \A j \in 1..Len(events) :
         (events[j].kind = "fetch" /\ Pos(events[j].symbol) > 1) =>
           \E r \in 1..(j - 1) :
             /\ events[r].kind = "report"
             /\ Pos(events[r].symbol) = Pos(events[j].symbol) - 1
    /\ pc = "bt_symbol" => backtest = NoContext

C21_Witness ==
  /\ mode = "backtest" /\ Len(symbol_bucket) = 2
  /\ pc = "returned" /\ thrown = "none"
  /\ Len(ReportsOf(symbol_bucket[1])) = 1
  /\ Len(ReportsOf(symbol_bucket[2])) = 1
  /\ Len(CallsOf(symbol_bucket[1])) = 2
  /\ events[Len(events)].kind = "report"

Sleeps == SelectSeq(events, LAMBDA e : e.kind = "sleep")

\* C22: in a live run each poll is followed, in this order and before the
\* next poll, by one append of the polled bar, one strategy invocation whose
\* window ends with that bar, and one sleep; appends, invocations and sleeps
\* occur nowhere else; while no exception is in flight the strategy has been
\* invoked once per poll and slept once per poll. A backtest never sleeps.
C22_PollAppendInvokeSleep ==
  /\ mode = "live" =>
       /\ \A i \in 1..Len(events) :
            /\ events[i].kind = "poll" =>
                 /\ i + 1 <= Len(events) =>
                      /\ events[i + 1].kind = "append"
                      /\ events[i + 1].symbol = events[i].symbol
                 /\ i + 2 <= Len(events) =>
                      /\ events[i + 2].kind = "strategy"
                      /\ Len(events[i + 2].window) >= 1
                      /\ events[i + 2].window[Len(events[i + 2].window)] = events[i + 1].bar
                 /\ i + 3 <= Len(events) => events[i + 3].kind = "sleep"
                 /\ i + 4 <= Len(events) => events[i + 4].kind = "poll"
                 /\ thrown = "none" => i + 3 <= Len(events)
            /\ events[i].kind = "append" => (i > 1 /\ events[i - 1].kind = "poll")
            /\ events[i].kind = "strategy" => (i > 1 /\ events[i - 1].kind = "append")
            /\ events[i].kind = "sleep" => (i > 1 /\ events[i - 1].kind = "strategy")
       /\ thrown = "none" =>
            /\ Len(StrategyCalls) = Len(Polls)
            /\ Len(Sleeps) = Len(Polls)
            /\ Len(Polls) = polls
  /\ mode = "backtest" => Sleeps = <<>>

C22_Witness ==
  /\ mode = "live" /\ thrown = "none"
  /\ Len(Polls) = 3
  /\ Len(StrategyCalls) = 3
  /\ Len(Sleeps) = 3
  /\ events[Len(events)].kind = "sleep"

\* C23: run_live lets a list or a numpy array through its bucket type test,
\* and answers a bucket of any other type with TypeError before any lookup
\* or poll.
C23_BucketTypeChecked ==
  (mode = "live" /\ pc # "start") =>
    IF bucketType \in {"list", "ndarray"}
    THEN thrown \notin {"TypeError", "NameError"}
    ELSE /\ thrown = "TypeError"
         /\ pc \in {"except", "raised"}
         /\ events = <<>>

Markets == SelectSeq(events, LAMBDA e : e.kind = "market")

\* C25: in run_live with a non-empty bucket and batch_size >= 1 the buffer
\* holds fewer than batch_size bars whenever the inner loop condition is
\* evaluated, so the inner loop is left only by an exception; the outer loop
\* head, which reads the market state and builds the buffer, is passed once:
\* the market state is read at most once, before every poll, and once the
\* buffer exists it keeps its capacity and the loop head is not reached again.
C25_InnerLoopNeverExits ==
  /\ [](( mode = "live" /\ symbol_bucket # <<>> /\ batch_size >= 1) =>
         /\ pc = "lv_inner" => BufferLen(batch) < batch_size
         /\ Len(Markets) <= 1
         /\ polls >= 1 => Len(Markets) = 1
         /\ \A i, j \in 1..Len(events) :
              (events[i].kind = "market" /\ events[j].kind = "poll") => i < j
         /\ InLiveLoop => (Len(Markets) = 1 /\ batch.cap = batch_size))
  /\ [][ (mode = "live" /\ symbol_bucket # <<>> /\ batch_size >= 1
            /\ batch # NoBuffer) =>
           /\ pc' # "lv_outer"
           /\ batch'.cap = batch.cap
           /\ Len(Markets') = Len(Markets)
           /\ (pc = "lv_inner" /\ pc' # pc) => pc' = "lv_for"
     ]_vars

C25_Witness ==
  /\ mode = "live" /\ Len(symbol_bucket) = 1 /\ batch_size = 2
  /\ pc = "lv_inner"
  /\ polls = 4
  /\ BufferLen(batch) = 1
  /\ Len(Markets) = 1

\* C26: a live run with an empty bucket comes to an end. With no symbol the
\* body of the for loop never runs and the buffer never changes, so the
\* while loop of line 138 ends only if its condition is false when it is
\* evaluated: the run is at that condition only with a buffer that already
\* holds batch_size bars.
C26_EmptyBucketTerminates ==
  (mode = "live" /\ symbol_bucket = <<>> /\ pc = "lv_inner") =>
    BufferLen(batch) >= batch_size

\* C27: a SystemExit raised inside run_backtest or run_live never reaches
\* the caller: the run ends returned, its last log record is the critical
\* "User's keyboard prompt stopped" record a KeyboardInterrupt gets, and no
\* error record is written.
C27_SystemExitAsInterrupt ==
  thrown = "SystemExit" =>
    /\ pc \in {"except", "returned"}
    /\ exc = "none"
    /\ \A i \in 1..Len(log) : log[i].level # "error"
    /\ pc = "returned" =>
         log[Len(log)] = LogRec("critical", "User's keyboard prompt stopped", StrategyName)

C27_Witness ==
  /\ mode = "live"
  /\ thrown = "SystemExit"
  /\ pc = "returned" /\ exc = "none"
  /\ events[Len(events)].kind = "strategy"
  /\ log[Len(log)].level = "critical"

Reports == SelectSeq(events, LAMBDA e : e.kind = "report")

\* C28: when an interrupt is in flight in a backtest at symbol s_i, there is
\* no report for s_i, every call made so far concerns s_1..s_i, the reports
\* printed are exactly one for each of s_1..s_(i-1), in bucket order, and
\* nothing reaches the caller; from then on the run makes no further call.
C28_InterruptLeavesEarlierReports ==
  /\ []((mode = "backtest" /\ thrown \in Interrupts) =>
         /\ symIdx \in 1..Len(symbol_bucket)
         /\ ReportsOf(symbol_bucket[symIdx]) = <<>>
         /\ \A k \in 1..Len(events) : Pos(events[k].symbol) <= symIdx
         /\ Len(Reports) = symIdx - 1
         /\ \A j \in 1..Len(Reports) : Reports[j].symbol = symbol_bucket[j]
         /\ exc = "none"
         /\ pc \in {"except", "returned"})
  /\ [][ (mode = "backtest" /\ thrown \in Interrupts) =>
           (events' = events /\ symIdx' = symIdx /\ thrown' = thrown) ]_vars

C28_Witness ==
  /\ mode = "backtest" /\ Len(symbol_bucket) = 2
  /\ thrown = "KeyboardInterrupt"
  /\ pc = "returned"
  /\ symIdx = 2
  /\ Len(Reports) = 1
  /\ Len(CallsOf(symbol_bucket[2])) = 1
  /\ histLen[symbol_bucket[2]] = 2

\* C29: in a backtest a symbol with an empty series, once fetched, gets no
\* strategy invocation and no context update, does not fail the run at the
\* construction of its buffer, and is reported before the loop moves on.
C29_EmptySeriesSkipped ==
  mode = "backtest" =>
    \A i \in 1..Len(symbol_bucket) :
      (/\ histLen[symbol_bucket[i]] = 0
       /\ \E k \in 1..Len(events) :
            events[k].kind = "fetch" /\ events[k].symbol = symbol_bucket[i]) =>
        /\ CallsOf(symbol_bucket[i]) = <<>>
        /\ \A k \in 1..Len(events) :
             events[k].symbol = symbol_bucket[i] => events[k].kind \in {"fetch", "report"}
        /\ thrown # "InvalidCapacity"
        /\ symIdx > i => Len(ReportsOf(symbol_bucket[i])) = 1

(* ================== properties of the analysis functions =============== *)
\* C24: value_at_risk raises AnalysisException exactly for a confidence
\* level that is neither an integer nor a floating point number.
C24_ConfidenceIntOrFloat ==
  (call.fn = "value_at_risk" /\ call.pc # "called") =>
    (call.exc = "AnalysisException" <=> call.arg.type \notin {"int", "bool", "float"})

\* C30: for a period that int() converts, check_for_period_error raises
\* AnalysisException exactly when int(period) exceeds len(data) and returns
\* with no error otherwise, the period equal to len(data) and the periods
\* at or below zero included.
C30_PeriodError ==
  (call.fn = "check_for_period_error" /\ call.pc # "called"
     /\ call.arg.type # "NoneType") =>
    LET truncated == IF call.arg.type = "float" /\ call.arg.tenths < 0
                     THEN -((-call.arg.tenths) \div 10)
                     ELSE call.arg.tenths \div 10
    IN IF truncated > Len(call.data)
       THEN call.pc = "raised" /\ call.exc = "AnalysisException"
       ELSE call.pc = "returned" /\ call.exc = "none"

C30_Witness ==
  /\ call.fn = "check_for_period_error"
  /\ call.arg = PyInt(MaxData) /\ Len(call.data) = MaxData
  /\ call.pc = "returned" /\ call.exc = "none"

====
